---------------------------- MODULE Spec2Model ----------------------------
(***************************************************************************)
(* A model of evoface-attendance: the liveness gate (FaceDetector), the    *)
(* 1:N matcher and template evolution (FaceRecognizer), the attendance     *)
(* ledger (AttendanceDB) and the kiosk's worker / consumer pair            *)
(* (RecognitionWorker, MainWindow).                                        *)
(*                                                                         *)
(* Scores are kept in hundredths (0.15 is 15, 1.2 is 120).  The gate's     *)
(* score is a sum of IEEE-754 doubles in the code: such a sum can land one *)
(* ulp below the exact decimal (0.1 added ten times is                     *)
(* 0.9999999999999999), never above it by a step, so the only comparison   *)
(* whose outcome the exact value does not decide is the one at exact       *)
(* equality; there the frame input "below" chooses the outcome.            *)
(***************************************************************************)
EXTENDS Integers, Sequences, FiniteSets, TLC

VARIABLES
    liveness_score,   \* FaceDetector.liveness_score, in hundredths
    is_locked,        \* FaceDetector.is_locked
    history_len,      \* len(FaceDetector.history_landmarks), saturated at ParallaxMinHistory
    gate_out,         \* what the last call of FaceDetector.process returned
    gate_in,          \* the last call on the gate alone: the operation, its frame, the state it found
    trace,            \* the classes of the frames processed since the last explicit start
    clock,            \* datetime.now(), in half seconds
    employees,        \* the employees table: rows of id, base_feature, dynamic_feature
    logs,             \* the logs table, in insertion order
    emp_ids,          \* FaceRecognizer.emp_ids
    base_matrix,      \* FaceRecognizer.base_matrix
    dynamic_matrix,   \* FaceRecognizer.dynamic_matrix
    has_dynamic_flags,\* FaceRecognizer.has_dynamic_flags
    rec,              \* the recognition result handed to the consumer, if any
    last_pa,          \* the last call of process_attendance: its arguments and outcome
    requests,         \* the manual_requests table, in insertion order
    call,             \* the kiosk's call of add_attendance_log: where it stands
    success_cooldown, \* MainWindow.success_cooldown
    timers,           \* the deadlines of the pending QTimer.singleShot(.., end_cooldown)
    dialog,           \* whether ManualLoginDialog.exec() is open
    queue,            \* result_signal emissions not yet delivered to update_ui
    presence,         \* who stands before the camera, and what was written for them
    last_ui,          \* the last delivery to update_ui: what it found and did
    last_frame,       \* the last frame of the worker: what it found and did
    worker,           \* RecognitionWorker.run as written: its loop, frames captured, results emitted
    writer,           \* process_attendance on the GUI thread: where it stands
    reader,           \* identify on the worker thread: where it stands, what it read
    inproc            \* FaceDetector.process on the worker thread: where it stands, its frame

gateVars == <<liveness_score, is_locked, history_len, gate_out, gate_in, trace>>
dbVars == <<employees, logs>>
cacheVars == <<emp_ids, base_matrix, dynamic_matrix, has_dynamic_flags>>
matchVars == <<rec, last_pa>>
ledgerVars == <<requests, call>>
kioskVars ==
    <<success_cooldown, timers, dialog, queue, presence, last_ui, last_frame, worker>>
raceVars == <<writer, reader, inproc>>
vars == <<gateVars, clock, dbVars, cacheVars, matchVars, ledgerVars, kioskVars,
          raceVars>>

---------------------------------------------------------------------------
(* FaceDetector                                                            *)

liveness_threshold == 100
ScoreCap == 120
ParallaxMinHistory == 5
ParallaxStill == 0 - 5
ParallaxDepth == 15
EarBonus == 10
TextureFailScore == 40

Max2(a, b) == IF a >= b THEN a ELSE b
Min2(a, b) == IF a <= b THEN a ELSE b

\* What the landmarks of a frame would give once enough history exists.
ParallaxOutcomes == {ParallaxStill, 0, ParallaxDepth}

\* One camera frame as the detector sees it: the number of faces found, the
\* parallax its landmarks give against the frame before, whether the eye
\* aspect ratio lies in the blink band, whether the bounding-box crop is not
\* empty, whether the anti-spoof score reaches texture_threshold, and to which
\* side a rounded sum equal to the threshold falls.
OneFaceFrames ==
    [faces : {1}, par : ParallaxOutcomes, ear : BOOLEAN,
     crop : BOOLEAN, tex : BOOLEAN, below : BOOLEAN]

\* A frame with no face or with several has no landmarks to measure.
OtherFrame(n) ==
    [faces |-> n, par |-> 0, ear |-> FALSE, crop |-> FALSE, tex |-> FALSE,
     below |-> FALSE]

Frames == OneFaceFrames \cup {OtherFrame(0), OtherFrame(2)}

check_3d_parallax(hist, par) ==
    IF hist < ParallaxMinHistory THEN 0 ELSE par

GeomScoreNoAdd(score, hist, f) == score

\* Lines 117-122: add the parallax and blink contributions, then clamp.
GeomScore(score, hist, f) ==
    Max2(0, Min2(score + check_3d_parallax(hist, f.par)
                       + (IF f.ear THEN EarBonus ELSE 0), ScoreCap))

\* Line 125: liveness_score >= liveness_threshold on the rounded double.
ReachesThreshold(score, f) ==
    \/ score > liveness_threshold
    \/ score = liveness_threshold /\ ~f.below

GateState(score, locked, hist) == [score |-> score, locked |-> locked, hist |-> hist]

ResetStateKeepsScore == GateState(TextureFailScore, FALSE, 0)

\* reset_liveness: the state it leaves.
ResetState == GateState(0, FALSE, 0)

liveness_percentNoClamp(score) == score

\* Line 147: min(int(self.liveness_score * 100), 100).
liveness_percent(score) == Min2(score, 100)

\* The dictionary process() returns with "SUCCESS".
GateResult(score, locked) ==
    [is_live |-> locked, liveness_percent |-> liveness_percent(score)]

NoResult == [is_live |-> FALSE, liveness_percent |-> 0]

\* Before the first frame nothing has been returned.
NoOutput == [status |-> "NONE", res |-> NoResult]

\* A call on the gate: process on a frame or reset_liveness, and the state
\* the gate was in when it was made.
GateCall(op, f, score, locked, hist) ==
    [op |-> op, frame |-> f, was |-> GateState(score, locked, hist)]
NoInput == GateCall("none", OtherFrame(0), 0, FALSE, 0)

TextureFailErases(h) == GateState(0, FALSE, h)

LockedExpires(h) == GateState(liveness_threshold, FALSE, h)

\* Lines 141-142: a locked gate holds the score at the threshold.
LockedStays(h) == GateState(liveness_threshold, TRUE, h)

\* Lines 137-140: the anti-spoof score is below texture_threshold.
TextureFail(h) == GateState(TextureFailScore, FALSE, h)

TexturePassesAlways(f) == TRUE

\* Lines 133-135: the anti-spoof model's score for the crop is at or above
\* texture_threshold.
TexturePasses(f) == f.tex

processResetsOnSeveralFaces(score, locked, hist, f) ==
    IF f.faces = 0 THEN
        [gate |-> ResetState, status |-> "NO_FACE", res |-> NoResult]
    ELSE IF f.faces > 1 THEN
        [gate |-> ResetState, status |-> "MULTIPLE_FACES", res |-> NoResult]
    ELSE
        LET h == Min2(hist + 1, ParallaxMinHistory)
            s1 == GeomScore(score, h, f)
            g  == IF locked THEN LockedStays(h)
                  ELSE IF ReachesThreshold(s1, f) /\ f.crop THEN
                      IF TexturePasses(f) THEN GateState(s1, TRUE, h)
                      ELSE TextureFail(h)
                  ELSE GateState(s1, FALSE, h)
        IN [gate |-> g, status |-> "SUCCESS", res |-> GateResult(g.score, g.locked)]

\* process(frame): the gate state it leaves, the status and the result.
process(score, locked, hist, f) ==
    IF f.faces = 0 THEN
        [gate |-> ResetState, status |-> "NO_FACE", res |-> NoResult]
    ELSE IF f.faces > 1 THEN
        [gate |-> GateState(score, locked, hist),
         status |-> "MULTIPLE_FACES", res |-> NoResult]
    ELSE
        LET h == Min2(hist + 1, ParallaxMinHistory)
            s1 == GeomScore(score, h, f)
            g  == IF locked THEN LockedStays(h)
                  ELSE IF ReachesThreshold(s1, f) /\ f.crop THEN
                      IF TexturePasses(f) THEN GateState(s1, TRUE, h)
                      ELSE TextureFail(h)
                  ELSE GateState(s1, FALSE, h)
        IN [gate |-> g, status |-> "SUCCESS", res |-> GateResult(g.score, g.locked)]

---------------------------------------------------------------------------
(* Embeddings.  A feature vector is a pair of integers in thousandths; the *)
(* unit vectors used lie 15 degrees apart in the first quadrant.  Scores   *)
(* of the recognizer are in thousandths too (0.5 is 500).                  *)

One == 1000

RECURSIVE SqrtIter(_, _, _)
SqrtIter(n, lo, hi) ==
    IF lo >= hi THEN lo
    ELSE LET mid == (lo + hi + 1) \div 2
         IN IF mid * mid <= n THEN SqrtIter(n, mid, hi)
            ELSE SqrtIter(n, lo, mid - 1)

\* np.linalg.norm, rounded down.
Norm(v) == SqrtIter(v[1] * v[1] + v[2] * v[2], 0, 4 * One)

Dot(u, v) == (u[1] * v[1] + u[2] * v[2]) \div One

\* v / (norm + 1e-10): a zero vector stays zero.
Normalize(v) ==
    LET n == Norm(v)
    IN IF n = 0 THEN <<0, 0>> ELSE <<(v[1] * One) \div n, (v[2] * One) \div n>>

Dir0 == <<1000, 0>>
Dir15 == <<966, 259>>
Dir30 == <<866, 500>>
Dir45 == <<707, 707>>
Dir60 == <<500, 866>>
Dir75 == <<259, 966>>
Dir90 == <<0, 1000>>
Dir315 == <<707, 0 - 707>>
Dirs == {Dir0, Dir15, Dir30, Dir45, Dir60, Dir75, Dir90, Dir315}

\* What the ArcFace model returns for a crop: an unnormalised vector (twice
\* a unit vector here), or None for a crop it cannot embed.
\* Python's None is "None" where an id is expected and the empty tuple where
\* a vector is.
None == "None"
NoneVec == <<>>
RawFeatures == {<<2 * d[1], 2 * d[2]>> : d \in Dirs} \cup {NoneVec}

---------------------------------------------------------------------------
(* FaceRecognizer.identify                                                 *)

rec_threshold == 500
evo_threshold == 500
warn_base_th == 300
evo_min_base == 500
evo_min_dyn == 850
base_weight == 400
dynamic_weight == 600
ambiguity_th == 50

\* compute_similarity: the cosine of two vectors.
compute_similarity(f1, f2) ==
    LET d == Norm(f1) * Norm(f2)
    IN IF d = 0 THEN 0 ELSE ((f1[1] * f2[1] + f1[2] * f2[2]) * One) \div d

\* Lines 118-123: one row of the fused matrix, renormalised.
FusedRow(b, d) ==
    Normalize(<<(b[1] * base_weight + d[1] * dynamic_weight) \div One,
                (b[2] * base_weight + d[2] * dynamic_weight) \div One>>)

\* The in-memory table identify reads: ids, base rows, dynamic rows, flags.
Table(ids, bm, dm, flags) == [ids |-> ids, base |-> bm, dyn |-> dm, flags |-> flags]

\* Line 127: fused_scores.
FusedScores(t, live) ==
    [i \in 1..Len(t.ids) |-> Dot(FusedRow(t.base[i], t.dyn[i]), live)]

\* np.argsort(fused_scores)[::-1][0] and [1]: a best row and a runner-up.
\* Which of several equal scores comes first is the sort's business; the
\* scores of the two are the same whichever it picks.
BestIdx(sc) == CHOOSE i \in DOMAIN sc : \A j \in DOMAIN sc : sc[i] >= sc[j]
SecondIdx(sc) ==
    CHOOSE i \in DOMAIN sc \ {BestIdx(sc)} :
        \A j \in DOMAIN sc \ {BestIdx(sc)} : sc[i] >= sc[j]

EmptyDetails ==
    [kind |-> "empty", base_score |-> 0, dynamic_score |-> 0, fused_score |-> 0,
     warning |-> FALSE, matched_old_dynamic |-> NoneVec, candidate_id |-> None]

AmbiguousDetails ==
    [kind |-> "ambiguous_gap", base_score |-> 0, dynamic_score |-> 0,
     fused_score |-> 0, warning |-> TRUE, matched_old_dynamic |-> NoneVec,
     candidate_id |-> None]

\* The tuple identify returns.
Match(emp, score, evolve, details, live) ==
    [emp_id |-> emp, score |-> score, evolve |-> evolve, details |-> details,
     live_feat |-> live]

ShouldEvolveBoth(has_dynamic, base_score, dyn_score, fused) ==
    IF has_dynamic THEN base_score > evo_min_base /\ dyn_score > evo_min_dyn
    ELSE fused > evo_threshold

\* Lines 167-173.
ShouldEvolve(has_dynamic, base_score, dyn_score, fused) ==
    IF has_dynamic THEN base_score > evo_min_base \/ dyn_score > evo_min_dyn
    ELSE fused > evo_threshold

IsAmbiguousUnlessAccepted(sc) ==
    /\ sc[BestIdx(sc)] - sc[SecondIdx(sc)] < ambiguity_th
    /\ sc[BestIdx(sc)] < rec_threshold

IsAmbiguousBreaksTies(sc) ==
    /\ sc[BestIdx(sc)] - sc[SecondIdx(sc)] < ambiguity_th
    /\ sc[BestIdx(sc)] # sc[SecondIdx(sc)]

\* Lines 143-145: the hesitation test on the two best fused scores.
IsAmbiguous(sc) == sc[BestIdx(sc)] - sc[SecondIdx(sc)] < ambiguity_th

HesitatesOnLowScore(t, sc) ==
    IF Len(t.ids) >= 2 THEN IsAmbiguous(sc) ELSE sc[BestIdx(sc)] < ambiguity_th

\* Lines 133-145: the hesitation test is made with two or more identities
\* enrolled; with one, line 147 takes the only row.
Hesitates(t, sc) == Len(t.ids) >= 2 /\ IsAmbiguous(sc)

AcceptsAbove(fused) == fused > rec_threshold

\* Line 186: max_fused_score >= self.rec_threshold.
Accepts(fused) == fused >= rec_threshold

\* Lines 150-189: the result for the best row.
Decide(t, sc, live) ==
    LET i == BestIdx(sc)
        fused == sc[i]
        has_dynamic == t.flags[i]
        base_score == compute_similarity(live, t.base[i])
        dyn_score == IF has_dynamic THEN compute_similarity(live, t.dyn[i]) ELSE 0
        details ==
            [kind |-> "full", base_score |-> base_score,
             dynamic_score |-> dyn_score, fused_score |-> fused,
             warning |-> (base_score < warn_base_th),
             matched_old_dynamic |-> IF has_dynamic THEN t.dyn[i] ELSE NoneVec,
             candidate_id |-> t.ids[i]]
    IN IF Accepts(fused)
       THEN Match(t.ids[i], fused,
                  ShouldEvolve(has_dynamic, base_score, dyn_score, fused),
                  details, live)
       ELSE Match(None, fused, FALSE, details, live)

\* identify(processed_face), given the feature the model extracts from it.
identify(t, raw) ==
    IF raw = NoneVec THEN Match(None, 0, FALSE, EmptyDetails, NoneVec)
    ELSE LET live == Normalize(raw) IN
         IF Len(t.ids) = 0 THEN Match(None, 0, FALSE, EmptyDetails, live)
         ELSE LET sc == FusedScores(t, live) IN
              IF Hesitates(t, sc)
              THEN Match(None, sc[BestIdx(sc)], FALSE, AmbiguousDetails, live)
              ELSE Decide(t, sc, live)

---------------------------------------------------------------------------
(* AttendanceDB.  Time is counted in half seconds, so that a timestamp has *)
(* a fraction of a second that the debounce check's parse can drop.        *)

TicksPerSecond == 2
debounce_min == 1
limit_seconds == debounce_min * 60 * TicksPerSecond

\* A row of the logs table.
LogRow(emp, ts, conf, base_s, dyn_s, photo) ==
    [employee_id |-> emp, timestamp |-> ts, confidence |-> conf,
     base_score |-> base_s, dynamic_score |-> dyn_s, photo_path |-> photo]

RowsOf(lg, emp) == {i \in 1..Len(lg) : lg[i].employee_id = emp}

\* SELECT timestamp FROM logs WHERE employee_id = ? ORDER BY timestamp DESC
\* LIMIT 1: the latest timestamp of the identity, or -1 when it has no row.
NoLog == 0 - 1
LastLog(lg, emp) ==
    IF RowsOf(lg, emp) = {} THEN NoLog
    ELSE LET i == CHOOSE i \in RowsOf(lg, emp) :
                      \A j \in RowsOf(lg, emp) : lg[i].timestamp >= lg[j].timestamp
         IN lg[i].timestamp

\* Line 254: strptime(last_log[0].split('.')[0], ...) keeps whole seconds.
ParseLast(ts) == (ts \div TicksPerSecond) * TicksPerSecond
ParseLastExact(ts) == ts

\* Lines 252-263: is the attempt at `now` rejected, given the row read.
elapsed(now, last) == now - ParseLast(last)
Debounced(now, last) == last # NoLog /\ elapsed(now, last) < limit_seconds
\* int(limit_seconds - elapsed), in seconds.
remaining(now, last) == (limit_seconds - elapsed(now, last)) \div TicksPerSecond

\* add_attendance_log once the last row has been read: (success, remaining,
\* logs afterwards).
AddAfterRead(lg, now, last, emp, conf, photo, details) ==
    IF Debounced(now, last)
    THEN [success |-> FALSE, remaining |-> remaining(now, last), logs |-> lg]
    ELSE [success |-> TRUE, remaining |-> 0,
          logs |-> Append(lg, LogRow(emp, now, conf, details.base_score,
                                     details.dynamic_score, photo))]

\* add_attendance_log run without another writer in between.
add_attendance_log(lg, now, emp, conf, photo, details) ==
    AddAfterRead(lg, now, LastLog(lg, emp), emp, conf, photo, details)

\* A row of the employees table.
Employee(id, base, dyn) == [id |-> id, base |-> base, dynamic |-> dyn]

\* update_dynamic_feature: UPDATE employees SET dynamic_feature = ? WHERE
\* employee_id = ?.
update_dynamic_feature(emps, emp, new_dynamic) ==
    [i \in 1..Len(emps) |->
        IF emps[i].id = emp THEN [emps[i] EXCEPT !.dynamic = new_dynamic]
        ELSE emps[i]]

\* datetime.combine(date, time), in ticks since midnight of day 0.
TicksOf(day, hh, mm) == ((day * 24 + hh) * 60 + mm) * 60 * TicksPerSecond

\* day_cutoff "04:00": int(self.day_cutoff.split(':')[0]).
cutoff_h == 4

\* A row of the manual_requests table.
Request(emp, day, hh, mm, status) ==
    [employee_id |-> emp, target_date |-> day, hh |-> hh, mm |-> mm,
     status |-> status]

\* create_request: the row is appended with the default status.
create_request(reqs, emp, day, hh, mm) ==
    Append(reqs, Request(emp, day, hh, mm, "pending"))

FinalDtSameDay(day, hh, mm) == TicksOf(day, hh, mm)

\* Lines 216-222: a requested time before the cutoff hour belongs to the
\* next calendar day.
FinalDt(day, hh, mm) ==
    IF hh < cutoff_h THEN TicksOf(day + 1, hh, mm) ELSE TicksOf(day, hh, mm)

approve_requestDebounced(lg, reqs, req_id, status) ==
    IF req_id \notin 1..Len(reqs)
    THEN [ok |-> FALSE, logs |-> lg, requests |-> reqs]
    ELSE LET r == reqs[req_id]
             ts == FinalDt(r.target_date, r.hh, r.mm)
             last == LastLog(lg, r.employee_id)
             lg2 == IF status = "approved" /\ ~Debounced(ts, last)
                    THEN Append(lg, LogRow(r.employee_id, ts, One, 0, 0,
                                           "MANUAL_APPROVAL"))
                    ELSE lg
         IN [ok |-> TRUE, logs |-> lg2,
             requests |-> [reqs EXCEPT ![req_id].status = status]]

\* approve_request(req_id, status): (returned value, logs and requests
\* afterwards).  The row is written without the debounce check.
approve_request(lg, reqs, req_id, status) ==
    IF req_id \notin 1..Len(reqs)
    THEN [ok |-> FALSE, logs |-> lg, requests |-> reqs]
    ELSE LET r == reqs[req_id]
             lg2 == IF status = "approved"
                    THEN Append(lg, LogRow(r.employee_id,
                                           FinalDt(r.target_date, r.hh, r.mm),
                                           One, 0, 0, "MANUAL_APPROVAL"))
                    ELSE lg
         IN [ok |-> TRUE, logs |-> lg2,
             requests |-> [reqs EXCEPT ![req_id].status = status]]

---------------------------------------------------------------------------
(* FaceRecognizer: the cache and process_attendance                        *)

\* reload_employees: the table built from load_all_employees().
reload_employees(emps) ==
    Table([i \in 1..Len(emps) |-> emps[i].id],
          [i \in 1..Len(emps) |-> emps[i].base],
          [i \in 1..Len(emps) |->
              IF emps[i].dynamic # NoneVec THEN emps[i].dynamic ELSE emps[i].base],
          [i \in 1..Len(emps) |-> emps[i].dynamic # NoneVec])

EvolveBaseFloor == 400
alpha == 100

NewDynamicAlwaysProbe(live, old_dynamic) == live

NewDynamicNoNorm(live, old_dynamic) ==
    IF old_dynamic # NoneVec
    THEN <<(alpha * live[1] + (One - alpha) * old_dynamic[1]) \div One,
           (alpha * live[2] + (One - alpha) * old_dynamic[2]) \div One>>
    ELSE live

\* Lines 206-213: the new dynamic feature.
NewDynamic(live, old_dynamic) ==
    IF old_dynamic # NoneVec
    THEN Normalize(<<(alpha * live[1] + (One - alpha) * old_dynamic[1]) \div One,
                     (alpha * live[2] + (One - alpha) * old_dynamic[2]) \div One>>)
    ELSE live

\* Lines 198-203: does the call go on to evolve the template.
EvolveGateNoFloor(success, should_evolve, details, live) ==
    success /\ should_evolve /\ live # NoneVec

EvolveGateAnyWrite(success, should_evolve, details, live) ==
    /\ should_evolve
    /\ ~(details.base_score < EvolveBaseFloor)
    /\ live # NoneVec

EvolveGate(success, should_evolve, details, live) ==
    /\ success /\ should_evolve
    /\ ~(details.base_score < EvolveBaseFloor)
    /\ live # NoneVec

\* list.index: the first row holding the id, 0 when there is none.
IndexOf(ids, emp) ==
    IF \E i \in 1..Len(ids) : ids[i] = emp
    THEN CHOOSE i \in 1..Len(ids) : ids[i] = emp /\ \A j \in 1..(i - 1) : ids[j] # emp
    ELSE 0

\* Lines 219-222: the table with the row of emp replaced and flagged.
MemoryUpdate(t, emp, new_dynamic) ==
    LET idx == IndexOf(t.ids, emp)
    IN IF idx = 0 THEN t
       ELSE [t EXCEPT !.dyn[idx] = new_dynamic, !.flags[idx] = TRUE]

\* process_attendance, run to completion: what it returns and leaves.
process_attendance(lg, emps, t, now, emp, score, should_evolve, live, photo, details) ==
    LET w == add_attendance_log(lg, now, emp, score, photo, details)
        evolves == EvolveGate(w.success, should_evolve, details, live)
        nd == NewDynamic(live, details.matched_old_dynamic)
    IN [success |-> w.success, remaining |-> w.remaining, logs |-> w.logs,
        evolved |-> evolves,
        employees |-> IF evolves THEN update_dynamic_feature(emps, emp, nd) ELSE emps,
        table |-> IF evolves THEN MemoryUpdate(t, emp, nd) ELSE t]

\* No recognition result is waiting; no call has been made.
NoRec == [emp_id |-> None, score |-> 0, evolve |-> FALSE, details |-> EmptyDetails,
          live_feat |-> NoneVec, fresh |-> FALSE]
NoCall == [called |-> FALSE, emp_id |-> None, base_score |-> 0, evolve |-> FALSE,
           success |-> FALSE, evolved |-> FALSE, remaining |-> 0]

---------------------------------------------------------------------------
(* The gate alone: any frame, and the explicit reset.                      *)

\* The two frame sequences of the liveness scenario: ten passing frames, and
\* four passing frames, one failing frame, nine passing frames.
PassRun == <<"P", "P", "P", "P", "P", "P", "P", "P", "P", "P">>
BrokenRun == <<"P", "P", "P", "P", "F", "P", "P", "P", "P", "P", "P", "P", "P", "P">>

IsPrefix(s, t) == Len(s) <= Len(t) /\ SubSeq(t, 1, Len(s)) = s
OnScenario(s) == IsPrefix(s, PassRun) \/ IsPrefix(s, BrokenRun)

\* A passing frame: one face, every liveness cue positive.
IsPass(f) == f.faces = 1 /\ f.ear /\ f.par = ParallaxDepth /\ f.crop /\ f.tex
\* A failing frame: one face whose anti-spoof score is below the threshold.
IsFail(f) == f.faces = 1 /\ ~f.tex

Untracked == <<"X">>

\* The trace follows the frames while they spell a prefix of a scenario.
TraceAfter(tr, f) ==
    LET next == IF IsPass(f) THEN Append(tr, "P")
                ELSE IF IsFail(f) THEN Append(tr, "F")
                ELSE Untracked
    IN IF tr # Untracked /\ OnScenario(next) THEN next ELSE Untracked

GateIdle ==
    /\ liveness_score = 0
    /\ is_locked = FALSE
    /\ history_len = 0
    /\ gate_out = NoOutput
    /\ gate_in = NoInput
    /\ trace = <<>>

StoreIdle ==
    /\ clock = 0
    /\ employees = <<>>
    /\ logs = <<>>

CacheIdle ==
    /\ emp_ids = <<>>
    /\ base_matrix = <<>>
    /\ dynamic_matrix = <<>>
    /\ has_dynamic_flags = <<>>

MatchIdle ==
    /\ rec = NoRec
    /\ last_pa = NoCall

\* No call of add_attendance_log is under way.
NoCallInFlight ==
    [pc |-> "idle", emp |-> None, now |-> 0, last |-> NoLog, conf |-> 0,
     success |-> FALSE, remaining |-> 0]

LedgerIdle ==
    /\ requests = <<>>
    /\ call = NoCallInFlight

\* What update_ui last did, before any delivery; what the worker last did,
\* before any frame.
NoDelivery ==
    [delivered |-> FALSE, cooldown |-> FALSE, identified |-> FALSE,
     text |-> "init", wrote |-> FALSE, evolved |-> FALSE, dialogs |-> 0,
     live |-> FALSE, gate_locked |-> FALSE]
NoFrame ==
    [processed |-> FALSE, cooldown |-> FALSE, locked |-> FALSE, status |-> "NONE",
     identified |-> FALSE]
Nobody == [who |-> None, writes |-> 0]

\* RecognitionWorker.__init__: running, nothing captured, nothing emitted.
WorkerStart ==
    [state |-> "running", captured |-> 0, emitted |-> 0, raised |-> "none",
     keys |-> {}, pc |-> "start", running |-> TRUE, camera |-> "none",
     stop |-> "idle", after |-> 0, late |-> FALSE]

\* MainWindow.__init__: no cooldown, no timer, no dialog, nothing emitted.
KioskIdle ==
    /\ success_cooldown = FALSE
    /\ timers = {}
    /\ dialog = "closed"
    /\ queue = <<>>
    /\ presence = Nobody
    /\ last_ui = NoDelivery
    /\ last_frame = NoFrame
    /\ worker = WorkerStart

\* Neither process_attendance nor identify is under way.
WriterIdle == [pc |-> "idle", emp |-> None, nd |-> NoneVec]
ReaderIdle ==
    [pc |-> "idle", live |-> NoneVec, scores |-> <<>>, dyn_seen |-> <<>>,
     idx |-> 0, flag |-> FALSE]

\* The worker is not inside process; no frame has been started since the
\* gate was last cleared.
ProcIdle == [pc |-> "idle", frame |-> OtherFrame(0), fresh |-> 0]

RaceIdle ==
    /\ writer = WriterIdle
    /\ reader = ReaderIdle
    /\ inproc = ProcIdle

GateInit ==
    GateIdle /\ StoreIdle /\ CacheIdle /\ MatchIdle /\ LedgerIdle /\ KioskIdle
    /\ RaceIdle

GateFrame ==
    \E f \in Frames :
        LET r == process(liveness_score, is_locked, history_len, f) IN
        /\ liveness_score' = r.gate.score
        /\ is_locked' = r.gate.locked
        /\ history_len' = r.gate.hist
        /\ gate_out' = [status |-> r.status, res |-> r.res]
        /\ gate_in' = GateCall("process", f, liveness_score, is_locked, history_len)
        /\ trace' = TraceAfter(trace, f)
        /\ UNCHANGED <<clock, dbVars, cacheVars, matchVars, ledgerVars, kioskVars, raceVars>>

GateReset ==
    /\ liveness_score' = ResetState.score
    /\ is_locked' = ResetState.locked
    /\ history_len' = ResetState.hist
    /\ gate_out' = gate_out
    /\ gate_in' = GateCall("reset_liveness", OtherFrame(0), liveness_score, is_locked,
                           history_len)
    /\ trace' = <<>>
    /\ UNCHANGED <<clock, dbVars, cacheVars, matchVars, ledgerVars, kioskVars, raceVars>>

GateNext == GateFrame \/ GateReset

GateSpec == GateInit /\ [][GateNext]_vars

UnlockedFrame ==
    /\ gate_in.op = "process" /\ gate_in.frame.faces = 1
    /\ ~gate_in.was.locked

\* A failing frame: its anti-spoof score is below texture_threshold, or
\* neither geometric cue (parallax, blink) is positive.
Failing(f) == ~f.tex \/ (~f.ear /\ f.par # ParallaxDepth)

C13_NoFaceAndSeveralFacesReset ==
    (gate_in.op = "process" /\ gate_in.frame.faces # 1)
    => /\ liveness_score = 0 /\ ~is_locked
       /\ gate_out.status
            = (IF gate_in.frame.faces = 0 THEN "NO_FACE" ELSE "MULTIPLE_FACES")

\* The gate is unlocked in this step.
Unlocks == is_locked /\ ~is_locked'

C15_ResetClearsGate ==
    /\ gate_in.op = "reset_liveness"
        => /\ liveness_score = 0 /\ ~is_locked /\ history_len = 0
           /\ trace = <<>>
    /\ (trace # Untracked /\ is_locked) => Len(trace) >= 7

C15_ResetOfLockedGate ==
    /\ gate_in.op = "reset_liveness"
    /\ gate_in.was.locked /\ gate_in.was.hist = ParallaxMinHistory
    /\ liveness_score = 0 /\ ~is_locked /\ history_len = 0

\* C16: the reported liveness_percent lies in 0..100 and the score in
\* 0..1.2 in every reachable state; from the frame on which the gate locks
\* onward, every single-face frame reports the full value until a reset.
C16_ProgressBoundedAndHeld ==
    /\ gate_out.res.liveness_percent \in 0..100
    /\ liveness_score \in 0..ScoreCap
    /\ is_locked => liveness_percent(liveness_score) = 100
    /\ (gate_out.status = "SUCCESS" /\ gate_out.res.is_live /\ gate_in.op = "process")
        => gate_out.res.liveness_percent = 100

C16_HeldAfterOvershoot ==
    /\ gate_in.op = "process" /\ gate_in.frame.faces = 1
    /\ gate_in.was.locked /\ gate_in.was.score > liveness_threshold
    /\ is_locked /\ liveness_score = liveness_threshold
    /\ gate_out.res.liveness_percent = 100

\* The score the frame of the last call accumulated before any texture
\* check, and whether the anti-spoof model was run on it.
Accumulated ==
    GeomScore(gate_in.was.score,
              Min2(gate_in.was.hist + 1, ParallaxMinHistory), gate_in.frame)
TextureChecked ==
    /\ gate_in.op = "process" /\ gate_in.frame.faces = 1
    /\ ~gate_in.was.locked
    /\ ReachesThreshold(Accumulated, gate_in.frame)
    /\ gate_in.frame.crop

\* C30: the gate becomes locked only on a frame on which the anti-spoof
\* model was run and scored at or above texture_threshold; it is run only
\* on a single-face frame of an unlocked gate whose accumulated score has
\* reached liveness_threshold, and on any other frame its verdict changes
\* nothing; a score below texture_threshold leaves the gate unlocked with
\* the progress lowered to 0.4.
C30_LocksOnlyOnPassedTexture ==
    gate_in.op = "process"
    => /\ (~gate_in.was.locked /\ is_locked)
            => /\ TextureChecked /\ gate_in.frame.tex
               /\ liveness_score >= liveness_threshold
       /\ (TextureChecked /\ ~gate_in.frame.tex)
            => /\ ~is_locked
               /\ liveness_score = TextureFailScore
               /\ liveness_score < Accumulated
       /\ (gate_in.frame.faces = 1 /\ ~gate_in.was.locked /\ ~TextureChecked)
            => /\ ~is_locked
               /\ liveness_score = Accumulated
       /\ (gate_in.frame.faces = 1 /\ gate_in.was.locked)
            => is_locked /\ liveness_score = liveness_threshold

\* The frame on which the gate locks: the accumulated score has reached
\* the threshold and the anti-spoof model passed the crop.
C30_LockedOnPassedTexture ==
    /\ TextureChecked /\ gate_in.frame.tex
    /\ ~gate_in.was.locked /\ is_locked
    /\ gate_in.was.score < liveness_threshold

---------------------------------------------------------------------------
(* The recognizer over the store: identify on any probe, then              *)
(* process_attendance on what identify returned, as the kiosk's consumer   *)
(* calls it; time passes in between.                                       *)

MaxClock == 240
MaxLogs == 2

\* The stores the kiosk may start from: enrolled identities with unit base
\* features, some with a dynamic feature learned earlier.
Rosters ==
    { <<Employee("A", Dir0, NoneVec)>>,
      <<Employee("A", Dir0, Dir30)>>,
      <<Employee("A", Dir0, NoneVec), Employee("B", Dir90, NoneVec)>>,
      <<Employee("A", Dir0, NoneVec), Employee("B", Dir15, NoneVec)>>,
      <<Employee("A", Dir0, Dir45), Employee("B", Dir75, NoneVec)>> }

CurrentTable == Table(emp_ids, base_matrix, dynamic_matrix, has_dynamic_flags)

CacheIs(t) ==
    /\ emp_ids = t.ids
    /\ base_matrix = t.base
    /\ dynamic_matrix = t.dyn
    /\ has_dynamic_flags = t.flags

CacheBecomes(t) ==
    /\ emp_ids' = t.ids
    /\ base_matrix' = t.base
    /\ dynamic_matrix' = t.dyn
    /\ has_dynamic_flags' = t.flags

Delivered(m) ==
    [emp_id |-> m.emp_id, score |-> m.score, evolve |-> m.evolve,
     details |-> m.details, live_feat |-> m.live_feat, fresh |-> TRUE]

MatchInit ==
    /\ GateIdle
    /\ clock = 0
    /\ logs = <<>>
    /\ employees \in Rosters
    /\ CacheIs(reload_employees(employees))
    /\ MatchIdle
    /\ LedgerIdle
    /\ KioskIdle
    /\ RaceIdle

\* RecognitionWorker.run, lines 106-114: one matching cycle.
MIdentify ==
    /\ \E raw \in RawFeatures : rec' = Delivered(identify(CurrentTable, raw))
    /\ UNCHANGED <<gateVars, clock, dbVars, cacheVars, last_pa, ledgerVars, kioskVars, raceVars>>

\* MainWindow.handle_recognition_result, lines 272-280: an accepted match is
\* written and, if it qualifies, evolves the template.
MProcess ==
    /\ rec.fresh /\ rec.emp_id # None
    /\ Len(logs) < MaxLogs
    /\ LET r == process_attendance(logs, employees, CurrentTable, clock, rec.emp_id,
                                   rec.score, rec.evolve, rec.live_feat, "LIVE",
                                   rec.details)
       IN /\ logs' = r.logs
          /\ employees' = r.employees
          /\ CacheBecomes(r.table)
          /\ last_pa' = [called |-> TRUE, emp_id |-> rec.emp_id,
                         base_score |-> rec.details.base_score,
                         evolve |-> rec.evolve, success |-> r.success,
                         evolved |-> r.evolved, remaining |-> r.remaining]
    /\ rec' = NoRec
    /\ UNCHANGED <<gateVars, clock, ledgerVars, kioskVars, raceVars>>

MTick ==
    /\ clock + limit_seconds <= MaxClock
    /\ clock' = clock + limit_seconds
    /\ UNCHANGED <<gateVars, dbVars, cacheVars, matchVars, ledgerVars, kioskVars, raceVars>>

MatchNext == MIdentify \/ MProcess \/ MTick

MatchSpec == MatchInit /\ [][MatchNext]_vars

\* The two best fused scores of the cycle that produced the waiting result.
TopGap ==
    LET sc == FusedScores(CurrentTable, rec.live_feat)
    IN sc[BestIdx(sc)] - sc[SecondIdx(sc)]

\* C2: with two or more identities enrolled, a probe whose two best fused
\* scores differ by less than ambiguity_gap gets no identity and the
\* ambiguous mark, however high the best score is.
C2_AmbiguousGetsNoIdentity ==
    (rec.fresh /\ rec.live_feat # NoneVec /\ Len(emp_ids) >= 2
        /\ TopGap < ambiguity_th)
    => (rec.emp_id = None /\ rec.details.kind = "ambiguous_gap"
        /\ rec.details.warning /\ ~rec.evolve)

C2_AmbiguousAboveThreshold ==
    /\ rec.fresh /\ rec.live_feat # NoneVec /\ Len(emp_ids) >= 2
    /\ TopGap < ambiguity_th
    /\ rec.score >= rec_threshold
    /\ rec.emp_id = None

\* A step of process_attendance on the waiting result.
ProcessStep == rec.fresh /\ rec.emp_id # None /\ ~rec'.fresh

\* C3: a call of process_attendance whose match has base_score below 0.4
\* leaves the stored dynamic feature, the in-memory row and its flag as they
\* were, whatever the fused score, the dynamic score and should_evolve are;
\* the write is accepted as for any other match: refused only by the
\* debounce, and otherwise one row is appended.
C3_NoEvolutionBelowBaseFloor ==
    [][(ProcessStep /\ rec.details.base_score < EvolveBaseFloor)
        => /\ employees' = employees
           /\ UNCHANGED cacheVars
           /\ ~last_pa'.evolved
           /\ last_pa'.success
                = ~Debounced(clock, LastLog(logs, rec.emp_id))
           /\ last_pa'.success => Len(logs') = Len(logs) + 1]_vars

C3_LowBaseAcceptedNotEvolved ==
    /\ last_pa.called /\ last_pa.base_score < EvolveBaseFloor
    /\ last_pa.evolve /\ last_pa.success /\ ~last_pa.evolved

\* C11: a call of process_attendance whose write is refused by the debounce,
\* or whose should_evolve is false, leaves every stored dynamic feature,
\* every in-memory dynamic row and every has_dynamic flag as it was; a call
\* that evolves the template has had its write accepted, one row appended,
\* and should_evolve true.
C11_EvolutionOnlyAfterAcceptedWrite ==
    [][ProcessStep
        => /\ (~last_pa'.success \/ ~rec.evolve)
                => /\ employees' = employees
                   /\ UNCHANGED cacheVars
                   /\ ~last_pa'.evolved
           /\ (last_pa'.evolved \/ employees' # employees
                    \/ dynamic_matrix' # dynamic_matrix
                    \/ has_dynamic_flags' # has_dynamic_flags)
                => /\ last_pa'.success /\ rec.evolve
                   /\ Len(logs') = Len(logs) + 1]_vars

C11_DebouncedWriteNotEvolved ==
    /\ last_pa.called /\ last_pa.evolve /\ ~(last_pa.base_score < EvolveBaseFloor)
    /\ ~last_pa.success /\ ~last_pa.evolved
    /\ Len(logs) >= 1

\* The waiting result comes from a matching cycle over the roster: the
\* probe was embedded and somebody is enrolled.
CycleDone == rec.fresh /\ rec.live_feat # NoneVec /\ Len(emp_ids) >= 1

\* The best fused score of that cycle and its row.
TopRow == BestIdx(FusedScores(CurrentTable, rec.live_feat))
TopScore == FusedScores(CurrentTable, rec.live_feat)[TopRow]

\* C19: with one identity enrolled identify makes no hesitation test: the
\* result is never the ambiguous one, and it names the identity exactly
\* when the fused score is at or above recognition_threshold.
C19_SingleIdentityByThresholdOnly ==
    (CycleDone /\ Len(emp_ids) = 1)
    => /\ rec.details.kind = "full"
       /\ ~(rec.details.warning /\ rec.details.candidate_id = None)
       /\ rec.emp_id = (IF TopScore >= rec_threshold THEN emp_ids[1] ELSE None)
       /\ rec.score = TopScore

C19_SingleIdentityLowScore ==
    /\ CycleDone /\ Len(emp_ids) = 1
    /\ TopScore < ambiguity_th
    /\ rec.emp_id = None /\ rec.details.kind = "full"
    /\ rec.details.candidate_id = emp_ids[1]

\* C20: a matching cycle over a non-empty roster that does not hesitate
\* names the best row's identity exactly when the fused score is at or
\* above recognition_threshold; below it the result names nobody and
\* never evolves, and still carries the fused, base and dynamic scores of
\* the best row and its id as candidate.
C20_AcceptedIffAtThreshold ==
    (CycleDone /\ (Len(emp_ids) = 1 \/ TopGap >= ambiguity_th))
    => /\ rec.emp_id = (IF TopScore >= rec_threshold THEN emp_ids[TopRow] ELSE None)
       /\ rec.score = TopScore
       /\ rec.details.fused_score = TopScore
       /\ rec.details.base_score
            = compute_similarity(rec.live_feat, base_matrix[TopRow])
       /\ rec.details.dynamic_score
            = (IF has_dynamic_flags[TopRow]
               THEN compute_similarity(rec.live_feat, dynamic_matrix[TopRow])
               ELSE 0)
       /\ rec.details.candidate_id = emp_ids[TopRow]
       /\ TopScore < rec_threshold => ~rec.evolve

C20_RejectedWithDiagnostics ==
    /\ CycleDone /\ Len(emp_ids) >= 2 /\ TopGap >= ambiguity_th
    /\ TopScore < rec_threshold /\ TopScore > 0
    /\ rec.emp_id = None
    /\ rec.details.candidate_id = emp_ids[TopRow]
    /\ rec.details.fused_score = TopScore
    /\ rec.details.base_score > 0

\* The same roster with its rows in the opposite order.
Reversed(q) == [i \in 1..Len(q) |-> q[Len(q) + 1 - i]]
RowsReversed(t) == Table(Reversed(t.ids), Reversed(t.base), Reversed(t.dyn),
                         Reversed(t.flags))

\* C33: with two or more identities enrolled and a positive ambiguity_gap,
\* a probe whose two best fused scores are equal gets the ambiguous result
\* and no identity, and gets it too when the rows are in the opposite order:
\* no rule breaks the tie.
C33_TieIsAmbiguous ==
    (CycleDone /\ Len(emp_ids) >= 2 /\ TopGap = 0)
    => /\ ambiguity_th > 0
       /\ rec.emp_id = None
       /\ rec.details.kind = "ambiguous_gap" /\ rec.details.warning
       /\ rec.details.candidate_id = None
       /\ ~rec.evolve
       /\ LET t == RowsReversed(CurrentTable)
          IN Hesitates(t, FusedScores(t, rec.live_feat))

\* A probe halfway between two enrolled identities, scoring above the
\* recognition threshold on both.
C33_TiedAboveThreshold ==
    /\ CycleDone /\ Len(emp_ids) >= 2 /\ TopGap = 0
    /\ TopScore >= rec_threshold
    /\ FusedScores(CurrentTable, rec.live_feat)[1]
         = FusedScores(CurrentTable, rec.live_feat)[2]
    /\ rec.emp_id = None /\ rec.details.kind = "ambiguous_gap"

\* The evolution rule on the best row of the cycle: with a dynamic feature,
\* the base score above evolution_min_base or the dynamic score above
\* evolution_min_dynamic; without one, the fused score above the cold-start
\* threshold.
EvolutionRule ==
    IF has_dynamic_flags[TopRow]
    THEN \/ compute_similarity(rec.live_feat, base_matrix[TopRow]) > evo_min_base
         \/ compute_similarity(rec.live_feat, dynamic_matrix[TopRow]) > evo_min_dyn
    ELSE TopScore > evo_threshold

\* The cycle hesitated between its two best rows.
Hesitated == Len(emp_ids) >= 2 /\ TopGap < ambiguity_th

\* C21 as stated: the should_evolve value identify returns is the evolution
\* rule on the best row, for every best row and every combination of scores.
C21_EvolveIsRuleOnEveryCandidate ==
    (CycleDone /\ ~Hesitated) => (rec.evolve = EvolutionRule)

\* C21: the should_evolve value identify returns with an accepted match is
\* the evolution rule on the best row; with a result that names nobody
\* (hesitation, or a fused score below recognition_threshold) it is false
\* whatever the rule gives.
C21_EvolveIsRuleOnAcceptedMatch ==
    CycleDone
    => /\ rec.emp_id # None => (rec.evolve = EvolutionRule)
       /\ rec.emp_id = None => ~rec.evolve

\* An accepted match that evolves on its dynamic score alone.
C21_EvolvesOnDynamicScoreAlone ==
    /\ CycleDone /\ rec.emp_id # None /\ rec.evolve
    /\ has_dynamic_flags[TopRow]
    /\ rec.details.base_score <= evo_min_base
    /\ rec.details.dynamic_score > evo_min_dyn

\* alpha * probe + (1 - alpha) * old, renormalised.
SoftUpdate(live, old) ==
    Normalize(<<(alpha * live[1] + (One - alpha) * old[1]) \div One,
                (alpha * live[2] + (One - alpha) * old[2]) \div One>>)

\* C22: a call of process_attendance that evolves the template leaves, in
\* the store and in the in-memory table alike, the probe embedding itself
\* when the identity had no dynamic feature, and the renormalised blend
\* alpha * probe + (1 - alpha) * old of its existing dynamic feature when it
\* had one; the identity's flag is set, and every other row of the store
\* and of the table is as it was.
C22_EvolutionWritesProbeOrBlend ==
    [][(ProcessStep /\ last_pa'.evolved)
        => LET i == IndexOf(emp_ids, rec.emp_id)
               expected == IF has_dynamic_flags[i]
                           THEN SoftUpdate(rec.live_feat, dynamic_matrix[i])
                           ELSE rec.live_feat
           IN /\ i # 0
              /\ employees[i].dynamic = (IF has_dynamic_flags[i]
                                         THEN dynamic_matrix[i] ELSE NoneVec)
              /\ employees' = [employees EXCEPT ![i].dynamic = expected]
              /\ dynamic_matrix' = [dynamic_matrix EXCEPT ![i] = expected]
              /\ has_dynamic_flags' = [has_dynamic_flags EXCEPT ![i] = TRUE]
              /\ emp_ids' = emp_ids /\ base_matrix' = base_matrix]_vars

\* An evolution of an existing dynamic feature: what the store and the table
\* hold afterwards is neither a probe nor a feature of the starting store.
C22_BlendedDynamicStored ==
    /\ last_pa.called /\ last_pa.evolved
    /\ \E i \in 1..Len(employees) :
          /\ employees[i].id = last_pa.emp_id
          /\ has_dynamic_flags[i]
          /\ employees[i].dynamic = dynamic_matrix[i]
          /\ employees[i].dynamic \notin {Dir30, Dir45}
          /\ \A raw \in RawFeatures \ {NoneVec} :
                employees[i].dynamic # Normalize(raw)

---------------------------------------------------------------------------
(* The ledger: the kiosk's add_attendance_log, run statement by statement  *)
(* on its own connection, beside the administrator's approve_request and   *)
(* the web form's create_request on theirs.  sqlite3 opens a transaction   *)
(* at the INSERT, not at the SELECT, so another connection may commit      *)
(* between the two.                                                        *)

MaxLedgerLogs == 3
MaxRequests == 1
MaxLedgerTime == 240

\* The kiosk is started a minute before one o'clock of day 1.
LedgerStart == TicksOf(1, 0, 59)

\* The steps by which time passes between calls: thirty seconds, and half
\* a second less than a minute.
TickSteps == {30 * TicksPerSecond, 60 * TicksPerSecond - 1}

LedgerIds == {"A", "B"}

LiveDetails == [EmptyDetails EXCEPT !.kind = "full", !.base_score = 700,
                                    !.fused_score = 700, !.candidate_id = "A"]

LedgerInit ==
    /\ GateIdle
    /\ clock = LedgerStart
    /\ employees = <<Employee("A", Dir0, NoneVec), Employee("B", Dir90, NoneVec)>>
    /\ logs = <<>>
    /\ CacheIdle
    /\ MatchIdle
    /\ LedgerIdle
    /\ KioskIdle
    /\ RaceIdle

LedgerOthers == <<gateVars, employees, cacheVars, matchVars, kioskVars, raceVars>>

\* Line 242: now = datetime.now().
LBegin ==
    /\ call.pc \in {"idle", "done"}
    /\ \E emp \in LedgerIds :
        call' = [NoCallInFlight EXCEPT !.pc = "select", !.emp = emp, !.now = clock,
                                       !.conf = 700]
    /\ UNCHANGED <<clock, logs, requests, LedgerOthers>>

\* Lines 249-250: the SELECT of the identity's latest timestamp.
LSelect ==
    /\ call.pc = "select"
    /\ call' = [call EXCEPT !.pc = "decide", !.last = LastLog(logs, call.emp)]
    /\ UNCHANGED <<clock, logs, requests, LedgerOthers>>

\* Lines 252-270: the debounce test on the row read, then the INSERT and
\* the commit.
LFinish ==
    /\ call.pc = "decide"
    /\ Len(logs) < MaxLedgerLogs
    /\ LET r == AddAfterRead(logs, call.now, call.last, call.emp, call.conf,
                             "LIVE", LiveDetails)
       IN /\ logs' = r.logs
          /\ call' = [call EXCEPT !.pc = "done", !.success = r.success,
                                  !.remaining = r.remaining]
    /\ UNCHANGED <<clock, requests, LedgerOthers>>

\* The hours a request may name: before the cutoff hour, the cutoff hour
\* itself, and after it.
RequestHours == {1, cutoff_h, 5}

\* webapp.py: an employee files a request for a day and a time.
LCreate ==
    /\ Len(requests) < MaxRequests
    /\ \E day \in {0, 1}, hh \in RequestHours :
        requests' = create_request(requests, "A", day, hh, 0)
    /\ UNCHANGED <<clock, logs, call, LedgerOthers>>

\* admin_window.py process_request: the administrator decides a request.
LApprove ==
    /\ Len(logs) < MaxLedgerLogs
    /\ \E req_id \in 1..Len(requests), status \in {"approved", "rejected"} :
        LET r == approve_request(logs, requests, req_id, status)
        IN /\ logs' = r.logs
           /\ requests' = r.requests
    /\ UNCHANGED <<clock, call, LedgerOthers>>

LTick ==
    /\ \E d \in TickSteps :
        /\ clock + d <= LedgerStart + MaxLedgerTime
        /\ clock' = clock + d
    /\ UNCHANGED <<logs, requests, call, LedgerOthers>>

LedgerNext == LBegin \/ LSelect \/ LFinish \/ LCreate \/ LApprove \/ LTick

LedgerSpec == LedgerInit /\ [][LedgerNext]_vars

\* C4: add_attendance_log rejects exactly when the time since the
\* identity's most recent log is less than the debounce window; on
\* rejection the message carries the whole seconds of (window - elapsed);
\* otherwise the attempt is accepted.
C4_RejectsExactlyInsideWindow ==
    call.pc = "done"
    => /\ call.success
            = ~(call.last # NoLog /\ call.now - call.last < limit_seconds)
       /\ ~call.success
            => call.remaining
                = (limit_seconds - (call.now - call.last)) \div TicksPerSecond

\* The timestamp ts lies less than the debounce window away from now, on
\* either side, as the debounce test reads timestamps.
InsideWindow(now, ts) ==
    /\ now - ParseLast(ts) < limit_seconds
    /\ ParseLast(ts) - now < limit_seconds

\* C5: when the live path inserts its row, the store holds no row of the
\* identity less than the debounce window away from it: nothing was
\* committed between the read of the last timestamp and the insert, so the
\* store never ends up with two such events.
C5_DebounceReadAndInsertAtomic ==
    [][(call.pc = "decide" /\ call'.pc = "done" /\ call'.success)
        => \A i \in RowsOf(logs, call.emp) :
              ~InsideWindow(call.now, logs[i].timestamp)]_vars

\* The step approves request i.
Approves(i) ==
    /\ Len(requests') = Len(requests)
    /\ requests[i].status # "approved"
    /\ requests'[i].status = "approved"

\* The day a backfill is booked on: the day after the requested date for a
\* clock time whose hour is before the cutoff hour.
BookedDay(r) == IF r.hh < cutoff_h THEN r.target_date + 1 ELSE r.target_date

\* C23: the row written for an approved request with date D and clock time
\* t carries the timestamp D+1 at t when t's hour is earlier than the day
\* cutoff hour, and D at t otherwise.
C23_BackfillTimestampFollowsCutoff ==
    [][\A i \in 1..Len(requests) :
          Approves(i)
          => /\ Len(logs') = Len(logs) + 1
             /\ logs'[Len(logs')].employee_id = requests[i].employee_id
             /\ logs'[Len(logs')].timestamp
                  = TicksOf(BookedDay(requests[i]), requests[i].hh,
                            requests[i].mm)]_vars

\* A request for 01:00 of day 0 has been approved and its row stands at
\* 01:00 of day 1.
C23_EarlyHourBookedNextDay ==
    /\ Len(requests) = 1
    /\ requests[1] = Request("A", 0, 1, 0, "approved")
    /\ \E k \in 1..Len(logs) :
          /\ logs[k].photo_path = "MANUAL_APPROVAL"
          /\ logs[k].timestamp = TicksOf(1, 1, 0)

\* C24: approving a request appends its row whatever the store holds: the
\* logs afterwards are the logs before and one MANUAL_APPROVAL row of the
\* request's identity, also when the identity's most recent row lies within
\* the debounce window of the backfill timestamp or of the current time.
C24_BackfillIgnoresDebounce ==
    [][\A i \in 1..Len(requests) :
          Approves(i)
          => /\ Len(logs') = Len(logs) + 1
             /\ SubSeq(logs', 1, Len(logs)) = logs
             /\ logs'[Len(logs')].employee_id = requests[i].employee_id
             /\ logs'[Len(logs')].photo_path = "MANUAL_APPROVAL"]_vars

\* A backfill row written while the identity's latest live row is within
\* the window both of the backfill timestamp and of the current time.
C24_BackfillInsideWindow ==
    \E k \in 1..Len(logs) : \E j \in 1..(k - 1) :
        /\ logs[k].photo_path = "MANUAL_APPROVAL"
        /\ logs[j].photo_path = "LIVE"
        /\ logs[j].employee_id = logs[k].employee_id
        /\ InsideWindow(logs[k].timestamp, logs[j].timestamp)
        /\ InsideWindow(clock, logs[j].timestamp)

---------------------------------------------------------------------------
(* The kiosk: RecognitionWorker.run on its thread emits one result per     *)
(* frame; the GUI thread runs update_ui on each result in turn, the        *)
(* single-shot timers and the manual login dialog.  A frame takes no time  *)
(* on the clock; time passes between steps.                                *)

MaxQueue == 1
MaxKioskClock == 140
MaxKioskLogs == 2
MaxDialogs == 2

\* QTimer.singleShot(3000 / 2000 / 1000, self.end_cooldown), in ticks.
CooldownSuccess == 3 * TicksPerSecond
CooldownBadPassword == 2 * TicksPerSecond
CooldownCancel == 1 * TicksPerSecond

\* Line 303: if score > 0.4.
ManualScoreFloor == 400

\* Two enrolled identities with opposite base features, and the features
\* the model may extract from the crop of the person at the camera: A's own
\* (accepted), one 63 degrees off (no identity, score between 0.4 and the
\* threshold), one 90 degrees off (as far from A as from B).
Dir63 == <<454, 891>>
Dir180 == <<0 - 1000, 0>>
KioskRoster == <<Employee("A", Dir0, NoneVec), Employee("B", Dir180, NoneVec)>>
KioskProbes == {<<2 * d[1], 2 * d[2]>> : d \in {Dir0, Dir63, Dir90}}

\* A frame of a live person alone at the camera.
PassFrame ==
    [faces |-> 1, par |-> ParallaxDepth, ear |-> TRUE, crop |-> TRUE, tex |-> TRUE,
     below |-> FALSE]

\* The frames the camera gives: an empty scene when nobody is there; with
\* the person there, the person alone or with a passer-by.
FramesSeen(who) ==
    IF who = None THEN {OtherFrame(0)} ELSE {PassFrame, OtherFrame(2)}

\* res['face_img'], line 103: the aligned crop the gate hands over when it
\* is locked.  FaceDetector.process as it stands returns no such key.
face_img(status, res) ==
    IF status = "SUCCESS" /\ res.is_live THEN "crop" ELSE None

\* self.db.is_cooling_down(candidate_id), line 297: the debounce test
\* without the insert.  AttendanceDB as it stands has no such method.
is_cooling_down(lg, now, emp) ==
    LET last == LastLog(lg, emp)
    IN [is_cd |-> Debounced(now, last),
        remaining |-> IF Debounced(now, last) THEN remaining(now, last) ELSE 0]

\* result_data, lines 95-99 and 108-114.
ResultData(status, res, recognition) ==
    [status |-> status, res |-> res, recognition |-> recognition]

\* Lines 102-104: does the worker run a matching cycle on this frame.
RunsIdentify(status, res) ==
    status = "SUCCESS" /\ res.is_live /\ face_img(status, res) # None

\* Lines 82-142: the body of the worker's loop for one frame.
RunFrame(score, locked, hist, t, f, raw) ==
    LET r == process(score, locked, hist, f)
    IN [gate |-> r.gate,
        out |-> ResultData(r.status, r.res,
                           IF RunsIdentify(r.status, r.res)
                           THEN Delivered(identify(t, raw)) ELSE NoRec)]

\* What a delivery leaves: the store, the cache, whether the cooldown is
\* entered, the single shot armed (0 for none), whether the dialog opens,
\* the status text.
UiOutcome(lg, emps, t, cooldown, arm, opens, text, wrote, evolved) ==
    [logs |-> lg, employees |-> emps, table |-> t, cooldown |-> cooldown,
     arm |-> arm, opens |-> opens, text |-> text, wrote |-> wrote,
     evolved |-> evolved]

ShowText(lg, emps, t, text) ==
    UiOutcome(lg, emps, t, FALSE, 0, FALSE, text, FALSE, FALSE)

handle_recognition_resultAsksOnAmbiguous(rec_data, lg, emps, t, now) ==
    IF rec_data.emp_id # None
    THEN LET r == process_attendance(lg, emps, t, now, rec_data.emp_id,
                                     rec_data.score, rec_data.evolve,
                                     rec_data.live_feat, "LIVE", rec_data.details)
         IN IF r.success
            THEN UiOutcome(r.logs, r.employees, r.table, TRUE, CooldownSuccess,
                           FALSE, "success", TRUE, r.evolved)
            ELSE ShowText(lg, emps, t, "debounced")
    ELSE IF rec_data.details.candidate_id # None
            /\ is_cooling_down(lg, now, rec_data.details.candidate_id).is_cd
    THEN ShowText(lg, emps, t, "cooling")
    ELSE IF rec_data.score > ManualScoreFloor \/ rec_data.details.warning
    THEN UiOutcome(lg, emps, t, TRUE, 0, TRUE, "dialog", FALSE, FALSE)
    ELSE ShowText(lg, emps, t, "failed")

\* Lines 260-309.
handle_recognition_result(rec_data, lg, emps, t, now) ==
    IF rec_data.details.warning /\ rec_data.details.kind = "ambiguous_gap"
    THEN ShowText(lg, emps, t, "ambiguous")
    ELSE IF rec_data.emp_id # None
    THEN LET r == process_attendance(lg, emps, t, now, rec_data.emp_id,
                                     rec_data.score, rec_data.evolve,
                                     rec_data.live_feat, "LIVE", rec_data.details)
         IN IF r.success
            THEN UiOutcome(r.logs, r.employees, r.table, TRUE, CooldownSuccess,
                           FALSE, "success", TRUE, r.evolved)
            ELSE ShowText(lg, emps, t, "debounced")
    ELSE IF rec_data.details.candidate_id # None
            /\ is_cooling_down(lg, now, rec_data.details.candidate_id).is_cd
    THEN ShowText(lg, emps, t, "cooling")
    ELSE IF rec_data.score > ManualScoreFloor
    THEN UiOutcome(lg, emps, t, TRUE, 0, TRUE, "dialog", FALSE, FALSE)
    ELSE ShowText(lg, emps, t, "failed")

CooldownBlocksNever(cd) == FALSE

\* Lines 225-226: if self.success_cooldown: return.
CooldownBlocks(cd) == cd

\* Lines 216-258: update_ui on one delivered result.
update_ui(cd, result, lg, emps, t, now) ==
    IF CooldownBlocks(cd) THEN ShowText(lg, emps, t, "kept")
    ELSE IF result.status = "SUCCESS"
    THEN IF ~result.res.is_live THEN ShowText(lg, emps, t, "liveness")
         ELSE IF result.recognition.fresh
         THEN handle_recognition_result(result.recognition, lg, emps, t, now)
         ELSE ShowText(lg, emps, t, "identifying")
    ELSE IF result.status = "FACE_TOO_SMALL" THEN ShowText(lg, emps, t, "too_small")
    ELSE IF result.status = "MULTIPLE_FACES" THEN ShowText(lg, emps, t, "multiple")
    ELSE ShowText(lg, emps, t, "idle")

\* Lines 341-359, after dialog.exec() has returned: the rows and the single
\* shot the answer leaves.
DialogAnswers == {"accepted_verified", "accepted_refused", "rejected"}

handle_manual_loginNoShotOnCancel(answer, cd, lg, now, uid) ==
    IF answer = "accepted_verified"
    THEN [logs |-> add_attendance_log(lg, now, uid, One, "MANUAL_PWD",
                                      EmptyDetails).logs,
          cooldown |-> TRUE, arm |-> CooldownSuccess]
    ELSE IF answer = "accepted_refused"
    THEN [logs |-> lg, cooldown |-> cd, arm |-> CooldownBadPassword]
    ELSE [logs |-> lg, cooldown |-> cd, arm |-> 0]

handle_manual_login(answer, cd, lg, now, uid) ==
    IF answer = "accepted_verified"
    THEN [logs |-> add_attendance_log(lg, now, uid, One, "MANUAL_PWD",
                                      EmptyDetails).logs,
          cooldown |-> TRUE, arm |-> CooldownSuccess]
    ELSE IF answer = "accepted_refused"
    THEN [logs |-> lg, cooldown |-> cd, arm |-> CooldownBadPassword]
    ELSE [logs |-> lg, cooldown |-> cd, arm |-> CooldownCancel]

KioskInit ==
    /\ GateIdle
    /\ clock = 0
    /\ employees = KioskRoster
    /\ logs = <<>>
    /\ CacheIs(reload_employees(employees))
    /\ MatchIdle
    /\ LedgerIdle
    /\ KioskIdle
    /\ RaceIdle

KioskOthers == <<gate_in, trace, worker, matchVars, ledgerVars, raceVars>>

\* A person steps before the camera; the person walks away.
KArrive ==
    /\ presence.who = None
    /\ presence' = [who |-> "A", writes |-> 0]
    /\ UNCHANGED <<liveness_score, is_locked, history_len, gate_out, clock, dbVars,
                   cacheVars, success_cooldown, timers, dialog, queue, last_ui,
                   last_frame, KioskOthers>>

KLeave ==
    /\ presence.who # None
    /\ presence' = [presence EXCEPT !.who = None]
    /\ UNCHANGED <<liveness_score, is_locked, history_len, gate_out, clock, dbVars,
                   cacheVars, success_cooldown, timers, dialog, queue, last_ui,
                   last_frame, KioskOthers>>

\* RecognitionWorker.run: one turn of the loop, ending with the emit.
KWorker ==
    /\ Len(queue) < MaxQueue
    /\ \E f \in FramesSeen(presence.who), raw \in KioskProbes :
        LET w == RunFrame(liveness_score, is_locked, history_len, CurrentTable, f, raw)
        IN /\ liveness_score' = w.gate.score
           /\ is_locked' = w.gate.locked
           /\ history_len' = w.gate.hist
           /\ gate_out' = [status |-> w.out.status, res |-> w.out.res]
           /\ queue' = Append(queue, w.out)
           /\ last_frame' = [processed |-> TRUE, cooldown |-> success_cooldown,
                             locked |-> is_locked, status |-> w.out.status,
                             identified |-> w.out.recognition.fresh]
    /\ UNCHANGED <<clock, dbVars, cacheVars, success_cooldown, timers, dialog,
                   presence, last_ui, KioskOthers>>

\* The event loop delivers the oldest emitted result to update_ui.
KDeliver ==
    /\ queue # <<>>
    /\ LET u == update_ui(success_cooldown, Head(queue), logs, employees,
                          CurrentTable, clock)
       IN /\ u.wrote => Len(logs) < MaxKioskLogs
          /\ u.cooldown => clock + CooldownSuccess <= MaxKioskClock
          /\ u.opens => last_ui.dialogs < MaxDialogs
          /\ logs' = u.logs
          /\ employees' = u.employees
          /\ CacheBecomes(u.table)
          /\ success_cooldown' = (success_cooldown \/ u.cooldown)
          /\ timers' = IF u.arm > 0 THEN timers \cup {clock + u.arm} ELSE timers
          /\ dialog' = IF u.opens THEN "open" ELSE dialog
          /\ presence' = IF presence.who # None /\ u.wrote
                         THEN [presence EXCEPT !.writes = @ + 1]
                         ELSE presence
          /\ last_ui' = [delivered |-> TRUE, cooldown |-> success_cooldown,
                         identified |-> Head(queue).recognition.fresh
                                        /\ Head(queue).recognition.emp_id # None,
                         text |-> u.text, wrote |-> u.wrote, evolved |-> u.evolved,
                         dialogs |-> last_ui.dialogs + (IF u.opens THEN 1 ELSE 0),
                         live |-> Head(queue).status = "SUCCESS"
                                  /\ Head(queue).res.is_live,
                         gate_locked |-> is_locked]
    /\ queue' = Tail(queue)
    /\ UNCHANGED <<liveness_score, is_locked, history_len, gate_out, clock,
                   last_frame, KioskOthers>>

\* dialog.id_input.text(), line 347: the id the user types is any enrolled
\* one, the candidate's or not.
DialogIds == {"A", "B"}

\* The user answers the dialog: lines 346-359.
KDialog ==
    /\ dialog = "open"
    /\ \E answer \in DialogAnswers, uid \in DialogIds :
        LET d == handle_manual_login(answer, success_cooldown, logs, clock, uid)
        IN /\ Len(d.logs) <= MaxKioskLogs
           /\ logs' = d.logs
           /\ success_cooldown' = d.cooldown
           /\ timers' = IF d.arm > 0 THEN timers \cup {clock + d.arm} ELSE timers
    /\ dialog' = "closed"
    /\ UNCHANGED <<liveness_score, is_locked, history_len, gate_out, clock,
                   employees, cacheVars, queue, presence, last_ui, last_frame,
                   KioskOthers>>

\* A single shot comes due: end_cooldown, lines 332-339.
end_cooldown ==
    /\ \E d \in timers :
        /\ d <= clock
        /\ timers' = timers \ {d}
    /\ success_cooldown' = FALSE
    /\ liveness_score' = ResetState.score
    /\ is_locked' = ResetState.locked
    /\ history_len' = ResetState.hist
    /\ UNCHANGED <<gate_out, clock, dbVars, cacheVars, dialog, queue, presence,
                   last_ui, last_frame, KioskOthers>>

\* Time passes: up to the next single shot when one is pending, else by a
\* debounce window; no emitted result waits that long for its delivery.
NextDeadline == CHOOSE d \in timers : \A e \in timers : d <= e
KTick ==
    /\ IF timers # {}
       THEN clock < NextDeadline /\ clock' = NextDeadline
       ELSE /\ queue = <<>>
            /\ clock + limit_seconds + CooldownSuccess <= MaxKioskClock
            /\ clock' = clock + limit_seconds
    /\ UNCHANGED <<liveness_score, is_locked, history_len, gate_out, dbVars,
                   cacheVars, success_cooldown, timers, dialog, queue, presence,
                   last_ui, last_frame, KioskOthers>>

KioskNext ==
    KArrive \/ KLeave \/ KWorker \/ KDeliver \/ KDialog \/ end_cooldown \/ KTick

KioskSpec == KioskInit /\ [][KioskNext]_vars

\* The event loop runs the single shots that are due, and time passes.
KioskFairSpec == KioskSpec /\ WF_vars(end_cooldown) /\ WF_vars(KTick)

\* C6: for one continuous presence, across any number of frames, result
\* deliveries, cooldown expiries and gate re-locks, the live recognition
\* path writes one attendance event for the identity and never a second
\* one: the events written since the person stepped up never exceed one.
C6_OneEventPerPresence == presence.writes <= 1

\* A step of update_ui; a turn of the worker's loop.
DeliveryStep == queue # <<>> /\ queue' = Tail(queue)
WorkerStep == Len(queue') > Len(queue)

\* C7 as stated: while the cooldown is active no delivered result leads to
\* a write, an evolution or a new dialog, and the worker runs no matching
\* cycle.
C7_NoCycleDuringCooldown ==
    [][/\ (success_cooldown /\ DeliveryStep)
            => UNCHANGED <<dbVars, cacheVars, dialog, timers, success_cooldown>>
       /\ (success_cooldown /\ WorkerStep)
            => ~queue'[Len(queue')].recognition.fresh]_vars

\* C7 as amended: while the cooldown is active update_ui returns before it
\* looks at the result, so no delivered result leads to a write, an
\* evolution, a new dialog or another single shot; the worker goes on
\* running matching cycles on locked frames, and their results are dropped.
C7_CooldownDeliveriesDropped ==
    [][(success_cooldown /\ DeliveryStep)
        => /\ UNCHANGED <<dbVars, cacheVars, dialog, timers, success_cooldown>>
           /\ last_ui'.text = "kept"]_vars

C7_AcceptedResultDropped ==
    /\ success_cooldown
    /\ last_frame.processed /\ last_frame.cooldown /\ last_frame.identified
    /\ last_ui.delivered /\ last_ui.cooldown /\ last_ui.identified
    /\ last_ui.text = "kept"

GateSetBack ==
    \/ is_locked /\ ~is_locked'
    \/ liveness_percent(liveness_score') < liveness_percent(liveness_score)

AmbiguousDelivery ==
    /\ DeliveryStep
    /\ Head(queue).recognition.fresh
    /\ Head(queue).recognition.details.kind = "ambiguous_gap"

\* C25: the delivery of an ambiguous result writes no row, evolves no
\* template, enters no cooldown, arms no timer and opens no dialog, and
\* leaves the gate as it is; outside the cooldown the status asks the
\* subject to re-present.
C25_AmbiguousResultChangesNothing ==
    [][AmbiguousDelivery
        => /\ UNCHANGED <<dbVars, cacheVars, success_cooldown, timers, dialog>>
           /\ UNCHANGED <<liveness_score, is_locked, history_len>>
           /\ ~last_ui'.wrote /\ ~last_ui'.evolved
           /\ last_ui'.dialogs = last_ui.dialogs
           /\ last_ui'.text = (IF success_cooldown THEN "kept" ELSE "ambiguous")]_vars

\* An ambiguous result has been handled outside the cooldown, and the gate
\* is still locked.
C25_AmbiguousHandledGateLocked ==
    /\ last_ui.delivered /\ last_ui.text = "ambiguous"
    /\ ~success_cooldown /\ is_locked
    /\ logs = <<>> /\ dialog # "open"

\* The step shows the success feedback: the cooldown is on and the
\* three-second single shot has just been armed.
SuccessFeedback ==
    /\ success_cooldown'
    /\ timers' # timers
    /\ (clock + CooldownSuccess) \in timers'

\* C26: on the face path and on the manual path alike, the success
\* feedback and the success cooldown occur only in a step that appends a
\* log row.
C26_SuccessOnlyWhenRowAppended ==
    [][SuccessFeedback => Len(logs') = Len(logs) + 1]_vars

---------------------------------------------------------------------------
(* RecognitionWorker.run as it is written, over FaceDetector.process as it *)
(* is written: the dictionary process returns has three keys, and the      *)
(* worker subscripts it with a fourth on every locked frame.  Nothing in   *)
(* run catches an exception, so one raised in a turn ends the loop.        *)

MaxFrames == 8

\* detector.py lines 144-148: the keys of the dictionary returned with
\* "SUCCESS"; with any other status the result is None.
ResultKeys(status) ==
    IF status = "SUCCESS" THEN {"bbox", "is_live", "liveness_percent"} ELSE {}

\* main_window.py lines 91-114 on one captured frame: the gate afterwards,
\* what process returned, and the exception the turn raises, if any.
RunAsWritten(score, locked, hist, f) ==
    LET r == process(score, locked, hist, f)
    IN [gate |-> r.gate, status |-> r.status, res |-> r.res,
        keys |-> ResultKeys(r.status),
        raised |-> IF r.status = "SUCCESS" /\ r.res.is_live
                      /\ "face_img" \notin ResultKeys(r.status)
                   THEN "KeyError" ELSE "none"]

WorkerOthers ==
    <<gate_in, trace, clock, dbVars, cacheVars, matchVars, ledgerVars,
      success_cooldown, timers, dialog, queue, presence, last_ui, last_frame,
      raceVars>>

\* One turn of the loop on a captured frame: lines 82-143.  A turn that
\* raises emits nothing and is the last one.
WTurn ==
    /\ worker.state = "running"
    /\ worker.captured < MaxFrames
    /\ \E f \in Frames :
        LET w == RunAsWritten(liveness_score, is_locked, history_len, f)
        IN /\ liveness_score' = w.gate.score
           /\ is_locked' = w.gate.locked
           /\ history_len' = w.gate.hist
           /\ gate_out' = [status |-> w.status, res |-> w.res]
           /\ worker' =
                IF w.raised # "none"
                THEN [worker EXCEPT !.state = "raised", !.captured = @ + 1,
                                    !.raised = w.raised, !.keys = w.keys]
                ELSE [worker EXCEPT !.captured = @ + 1, !.emitted = @ + 1,
                                    !.keys = w.keys]
    /\ UNCHANGED WorkerOthers

\* stop(), lines 62-66: the loop ends at the top of its next turn.
WStop ==
    /\ worker.state = "running"
    /\ worker' = [worker EXCEPT !.state = "stopped"]
    /\ UNCHANGED <<liveness_score, is_locked, history_len, gate_out, WorkerOthers>>

WorkerNext == WTurn \/ WStop

WorkerSpec == GateInit /\ [][WorkerNext]_vars

\* C17: the output of every locked frame carries the face crop and the
\* output of an unlocked frame carries none, and the worker's read of the
\* crop on a locked frame never fails.
C17_LockedOutputCarriesCrop ==
    /\ worker.raised = "none"
    /\ gate_out.status = "SUCCESS"
        => (("face_img" \in worker.keys) <=> gate_out.res.is_live)

\* C18: every captured frame has its one result emitted, whatever the gate
\* status, and no captured frame ends the loop.
C18_OneResultPerFrame ==
    /\ worker.emitted = worker.captured
    /\ worker.state # "raised"

---------------------------------------------------------------------------
(* identify on the worker thread beside process_attendance on the GUI      *)
(* thread, statement by statement.  Both work on the same FaceRecognizer   *)
(* and no lock is taken by either; a thread switch may fall between any    *)
(* two statements.                                                         *)

MaxRaceLogs == 2
MaxRaceClock == 120

RaceRosters ==
    { <<Employee("A", Dir0, NoneVec)>>,
      <<Employee("A", Dir0, NoneVec), Employee("B", Dir90, NoneVec)>> }
RaceProbes == {<<2 * d[1], 2 * d[2]>> : d \in {Dir15, Dir30}}

RaceInit ==
    /\ GateIdle
    /\ clock = 0
    /\ logs = <<>>
    /\ employees \in RaceRosters
    /\ CacheIs(reload_employees(employees))
    /\ MatchIdle
    /\ LedgerIdle
    /\ KioskIdle
    /\ RaceIdle

RaceOthers == <<gateVars, last_pa, ledgerVars, kioskVars, inproc>>

\* identify, lines 104-127: the probe is normalised and scored against the
\* fused matrix built from base_matrix and dynamic_matrix as they are now.
RFuse ==
    /\ reader.pc = "idle"
    /\ \E raw \in RaceProbes :
        LET live == Normalize(raw)
        IN reader' = [pc |-> "fused", live |-> live,
                      scores |-> FusedScores(CurrentTable, live),
                      dyn_seen |-> dynamic_matrix, idx |-> 0, flag |-> FALSE]
    /\ UNCHANGED <<clock, dbVars, cacheVars, rec, writer, RaceOthers>>

\* Lines 130-154: the best row is chosen and has_dynamic_flags[best_idx]
\* is read; a hesitation ends the cycle here.
RPick ==
    /\ reader.pc = "fused"
    /\ IF Hesitates(CurrentTable, reader.scores)
       THEN /\ rec' = Delivered(Match(None, reader.scores[BestIdx(reader.scores)],
                                      FALSE, AmbiguousDetails, reader.live))
            /\ reader' = ReaderIdle
       ELSE /\ rec' = rec
            /\ reader' = [reader EXCEPT
                            !.pc = "picked",
                            !.idx = BestIdx(reader.scores),
                            !.flag = has_dynamic_flags[BestIdx(reader.scores)]]
    /\ UNCHANGED <<clock, dbVars, cacheVars, writer, RaceOthers>>

\* Lines 157-189: the scores of the best row, read through the row views
\* taken at line 152-153, and the result.
RScore ==
    /\ reader.pc = "picked"
    /\ LET t == Table(emp_ids, base_matrix, dynamic_matrix,
                      [has_dynamic_flags EXCEPT ![reader.idx] = reader.flag])
       IN rec' = Delivered(Decide(t, reader.scores, reader.live))
    /\ reader' = ReaderIdle
    /\ UNCHANGED <<clock, dbVars, cacheVars, writer, RaceOthers>>

\* process_attendance, lines 195-213: the log is written and the new
\* dynamic feature computed; matched_old_dynamic is a view of the row.
WLog ==
    /\ writer.pc = "idle"
    /\ rec.fresh /\ rec.emp_id # None
    /\ Len(logs) < MaxRaceLogs
    /\ LET w == add_attendance_log(logs, clock, rec.emp_id, rec.score, "LIVE",
                                   rec.details)
           old == IF rec.details.matched_old_dynamic # NoneVec
                  THEN dynamic_matrix[IndexOf(emp_ids, rec.emp_id)]
                  ELSE NoneVec
       IN /\ logs' = w.logs
          /\ writer' = IF EvolveGate(w.success, rec.evolve, rec.details, rec.live_feat)
                       THEN [pc |-> "store", emp |-> rec.emp_id,
                             nd |-> NewDynamic(rec.live_feat, old)]
                       ELSE WriterIdle
    /\ rec' = NoRec
    /\ UNCHANGED <<clock, employees, cacheVars, reader, RaceOthers>>

\* Line 216: self.db.update_dynamic_feature(emp_id, new_dynamic).
WStore ==
    /\ writer.pc = "store"
    /\ employees' = update_dynamic_feature(employees, writer.emp, writer.nd)
    /\ writer' = [writer EXCEPT !.pc = "row"]
    /\ UNCHANGED <<clock, logs, cacheVars, rec, reader, RaceOthers>>

\* Lines 219-221: self.dynamic_matrix[idx] = new_dynamic.
WRow ==
    /\ writer.pc = "row"
    /\ dynamic_matrix' = [dynamic_matrix EXCEPT
                            ![IndexOf(emp_ids, writer.emp)] = writer.nd]
    /\ writer' = [writer EXCEPT !.pc = "flag"]
    /\ UNCHANGED <<clock, dbVars, emp_ids, base_matrix, has_dynamic_flags, rec,
                   reader, RaceOthers>>

\* Line 222: self.has_dynamic_flags[idx] = True.
WFlag ==
    /\ writer.pc = "flag"
    /\ has_dynamic_flags' = [has_dynamic_flags EXCEPT
                               ![IndexOf(emp_ids, writer.emp)] = TRUE]
    /\ writer' = WriterIdle
    /\ UNCHANGED <<clock, dbVars, emp_ids, base_matrix, dynamic_matrix, rec,
                   reader, RaceOthers>>

RTick ==
    /\ clock + limit_seconds <= MaxRaceClock
    /\ clock' = clock + limit_seconds
    /\ UNCHANGED <<dbVars, cacheVars, rec, raceVars, RaceOthers>>

RaceNext == RFuse \/ RPick \/ RScore \/ WLog \/ WStore \/ WRow \/ WFlag \/ RTick

RaceSpec == RaceInit /\ [][RaceNext]_vars

\* C10: no matching cycle observes an evolution half applied: a cycle that
\* reads has_dynamic = false for its best row has fused that row with the
\* base feature standing in for the dynamic one, never with a new dynamic
\* feature whose flag is yet to be set.
C10_EvolutionVisibleAtOnce ==
    (reader.pc = "picked" /\ ~reader.flag)
        => reader.dyn_seen[reader.idx] = base_matrix[reader.idx]

---------------------------------------------------------------------------
(* The administrator's window beside the kiosk: identities are enrolled,    *)
(* enrolled again and deleted in the store while the kiosk, a process of    *)
(* its own, identifies and evolves from the cache it loaded when it was     *)
(* started.  Each operation of the administrator takes a debounce window    *)
(* of time.                                                                 *)

MaxAdminClock == 240

\* The photographs the administrator uploads: face.normed_embedding of
\* each is the unit vector.
AdminPhotos == {<<2 * d[1], 2 * d[2]>> : d \in {Dir0, Dir90}}

Enrolled(emps, id) == \E i \in 1..Len(emps) : emps[i].id = id

\* The stored dynamic feature of an enrolled identity.
DynOf(emps, id) == emps[CHOOSE i \in 1..Len(emps) : emps[i].id = id].dynamic

\* The rows of the employees table, and of the logs table, that are not the
\* identity's.
RowsNotOf(emps, id) == SelectSeq(emps, LAMBDA e : e.id # id)
LogsNotOf(lg, id) == SelectSeq(lg, LAMBDA r : r.employee_id # id)

register_employeeKeepsDynamic(emps, id, feature) ==
    IF Enrolled(emps, id)
    THEN Append(RowsNotOf(emps, id), Employee(id, feature, DynOf(emps, id)))
    ELSE Append(emps, Employee(id, feature, NoneVec))

\* register_employee: INSERT OR REPLACE of the row with the columns it
\* names; dynamic_feature is not among them, so the new row has none.
register_employee(emps, id, feature) ==
    Append(RowsNotOf(emps, id), Employee(id, feature, NoneVec))

delete_employeeKeepsLogs(emps, lg, id) ==
    [employees |-> RowsNotOf(emps, id), logs |-> lg]

\* delete_employee: DELETE FROM employees and DELETE FROM logs for the id,
\* in one transaction.
delete_employee(emps, lg, id) ==
    [employees |-> RowsNotOf(emps, id), logs |-> LogsNotOf(lg, id)]

\* The kiosk has been started on a store of two identities enrolled from
\* their photographs.
AdminInit ==
    /\ GateIdle
    /\ clock = 0
    /\ employees = <<Employee("A", Dir0, NoneVec), Employee("B", Dir90, NoneVec)>>
    /\ logs = <<>>
    /\ CacheIs(reload_employees(employees))
    /\ MatchIdle
    /\ LedgerIdle
    /\ KioskIdle
    /\ RaceIdle

AdminOthers == <<gateVars, matchVars, ledgerVars, kioskVars, raceVars>>

\* AdminWindow.register_employee: a new identity, or an enrolled one again.
AdminRegister ==
    /\ clock + limit_seconds <= MaxAdminClock
    /\ clock' = clock + limit_seconds
    /\ \E id \in LedgerIds, photo \in AdminPhotos :
        employees' = register_employee(employees, id, Normalize(photo))
    /\ UNCHANGED <<logs, cacheVars, AdminOthers>>

\* AdminWindow.delete_employee.
AdminDelete ==
    /\ clock + limit_seconds <= MaxAdminClock
    /\ clock' = clock + limit_seconds
    /\ \E id \in LedgerIds :
        /\ Enrolled(employees, id)
        /\ LET d == delete_employee(employees, logs, id)
           IN employees' = d.employees /\ logs' = d.logs
    /\ UNCHANGED <<cacheVars, AdminOthers>>

\* The kiosk is started again: FaceRecognizer.__init__ loads the cache.
KioskRestart ==
    /\ CacheBecomes(reload_employees(employees))
    /\ rec' = NoRec
    /\ UNCHANGED <<gateVars, clock, dbVars, last_pa, ledgerVars, kioskVars, raceVars>>

\* The features the model extracts at the kiosk: A's, one 30 degrees off,
\* and B's.
AdminProbes == {<<2 * d[1], 2 * d[2]>> : d \in {Dir0, Dir30, Dir90}}

\* RecognitionWorker.run, lines 106-114: one matching cycle against the
\* cache the kiosk holds.
AIdentify ==
    /\ \E raw \in AdminProbes : rec' = Delivered(identify(CurrentTable, raw))
    /\ UNCHANGED <<gateVars, clock, dbVars, cacheVars, last_pa, ledgerVars,
                   kioskVars, raceVars>>

AdminNext == AdminRegister \/ AdminDelete \/ KioskRestart \/ AIdentify \/ MProcess

AdminSpec == AdminInit /\ [][AdminNext]_vars

\* The step deletes the identity.
Deletes(id) == Enrolled(employees, id) /\ ~Enrolled(employees', id)

\* C27: the step that deregisters an identity leaves the store with no row
\* of the identity in the employees table and none in the logs table; the
\* rows of every other identity stay.
C27_DeleteCascadesToLogs ==
    [][\A id \in LedgerIds :
          Deletes(id)
          => /\ RowsOf(logs', id) = {}
             /\ employees' = RowsNotOf(employees, id)
             /\ logs' = LogsNotOf(logs, id)]_vars

\* A's and B's attendance were written, and A has since been deleted with
\* its rows while B and B's row remain.
C27_DeletedWithItsRows ==
    /\ last_pa.called /\ last_pa.success /\ last_pa.emp_id = "A"
    /\ ~Enrolled(employees, "A")
    /\ RowsOf(logs, "A") = {}
    /\ Enrolled(employees, "B") /\ RowsOf(logs, "B") # {}

\* C28: the stored dynamic feature of an identity that stays enrolled
\* changes only in a step of process_attendance that evolves that identity:
\* enrolling it again, attendance writes and every other operation leave it
\* as it was.
C28_DynamicChangedOnlyByEvolution ==
    [][\A id \in LedgerIds :
          (/\ Enrolled(employees, id) /\ Enrolled(employees', id)
           /\ DynOf(employees', id) # DynOf(employees, id))
          => (ProcessStep /\ last_pa'.evolved /\ rec.emp_id = id)]_vars

\* The slack of the model's arithmetic, in thousandths: the components of
\* a normalised vector are rounded down, and so is the norm they are
\* divided by.
RoundingSlack == 3

IsUnit(v) == Norm(v) \in (One - RoundingSlack)..(One + RoundingSlack)

C34_RemainingWithinWindow ==
    (call.pc = "done" /\ ~call.success)
    => call.remaining \in 0..(limit_seconds \div TicksPerSecond)

\* The rows approve_request has written.
BackfillRows == {j \in 1..Len(logs) : logs[j].photo_path = "MANUAL_APPROVAL"}

\* C35: however often approve_request is called for a request, and in
\* whatever order approvals and rejections come, the store holds at most
\* one backfill row for each request filed.
C35_AtMostOneRowPerRequest == Cardinality(BackfillRows) <= Len(requests)

\* C36: whatever enrolments, deregistrations and writes from the kiosk's
\* cached roster came before, every log row names an identity that has a
\* row in the employees table.
C36_LogsReferToEnrolled ==
    \A j \in 1..Len(logs) : Enrolled(employees, logs[j].employee_id)

\* dt_obj.hour and dt_obj.date() of a timestamp.
HourOf(ts) == (ts \div (3600 * TicksPerSecond)) % 24
DateOf(ts) == ts \div (24 * 3600 * TicksPerSecond)

get_logical_dayIsDate(ts) == DateOf(ts)

\* AttendanceCalculator.get_logical_day: a time whose hour is before the
\* cutoff hour belongs to the day before.
get_logical_day(ts) ==
    IF HourOf(ts) < cutoff_h THEN DateOf(ts) - 1 ELSE DateOf(ts)

\* C37: the timestamp approve_request writes for a request with date D and
\* clock time t is attributed by get_logical_day to the business day D, for
\* the time requested and for every other time of day.
C37_BackfillReturnsToItsDay ==
    [][\A i \in 1..Len(requests) :
          Approves(i)
          => /\ Len(logs') = Len(logs) + 1
             /\ get_logical_day(logs'[Len(logs')].timestamp)
                  = requests[i].target_date
             /\ \A hh \in 0..23, mm \in {0, 30, 59} :
                  get_logical_day(FinalDt(requests[i].target_date, hh, mm))
                    = requests[i].target_date]_vars

\* A request for an hour before the cutoff has been approved: its row lies
\* on the next calendar day and is attributed to the day requested.
C37_NextDayRowAttributedBack ==
    \E i \in 1..Len(requests), j \in BackfillRows :
        /\ requests[i].status = "approved"
        /\ requests[i].hh < cutoff_h
        /\ logs[j].timestamp
             = FinalDt(requests[i].target_date, requests[i].hh, requests[i].mm)
        /\ DateOf(logs[j].timestamp) = requests[i].target_date + 1
        /\ get_logical_day(logs[j].timestamp) = requests[i].target_date

\* C32: a log row is written from the live path only on a delivered result
\* whose gate output was SUCCESS with the lock set, and only while the gate
\* still holds that lock: a result computed before a reset of the gate is
\* not turned into an accepted write after the reset.
C32_LiveWriteOnlyUnderCurrentLock ==
    (last_ui.delivered /\ last_ui.wrote)
    => (last_ui.live /\ last_ui.gate_locked)

---------------------------------------------------------------------------
(* RecognitionWorker.run statement by statement, beside stop() called on   *)
(* the GUI thread by closeEvent.  In the worker record pc is the place in  *)
(* run, running the flag, camera the capture device, stop the place in     *)
(* stop(), after the turns finished since stop() cleared the flag, late    *)
(* whether a result was emitted after stop() had returned.                 *)

StopOthers == <<liveness_score, is_locked, history_len, gate_out, WorkerOthers>>

\* Lines 69-73: the thread opens the camera.
SStart ==
    /\ worker.pc = "start"
    /\ worker' = [worker EXCEPT !.pc = "top", !.camera = "open"]
    /\ UNCHANGED StopOthers

\* Lines 75-80: the flag is read under the mutex at the top of every turn.
STop ==
    /\ worker.pc = "top"
    /\ worker' = [worker EXCEPT !.pc = IF worker.running THEN "read" ELSE "release"]
    /\ UNCHANGED StopOthers

\* Lines 82-84: cap.read(); a failed capture goes back to the top.
SRead ==
    /\ worker.pc = "read"
    /\ \/ worker' = [worker EXCEPT !.pc = "top"]
       \/ /\ worker.captured < MaxFrames
          /\ worker' = [worker EXCEPT !.pc = "frame", !.captured = @ + 1]
    /\ UNCHANGED StopOthers

\* Lines 86-143: the captured frame is processed and its result emitted; an
\* exception ends run there, before line 145.
SFrame ==
    /\ worker.pc = "frame"
    /\ \E f \in Frames :
        LET w == RunAsWritten(liveness_score, is_locked, history_len, f)
            n == IF worker.stop = "idle" THEN 0 ELSE Min2(worker.after + 1, 2)
        IN /\ liveness_score' = w.gate.score
           /\ is_locked' = w.gate.locked
           /\ history_len' = w.gate.hist
           /\ gate_out' = [status |-> w.status, res |-> w.res]
           /\ worker' =
                IF w.raised # "none"
                THEN [worker EXCEPT !.pc = "raised", !.state = "raised",
                                    !.raised = w.raised, !.keys = w.keys,
                                    !.after = n]
                ELSE [worker EXCEPT !.pc = "top", !.emitted = @ + 1,
                                    !.keys = w.keys, !.after = n,
                                    !.late = @ \/ worker.stop = "returned"]
    /\ UNCHANGED WorkerOthers

\* Line 145: cap.release(), and run returns.
SRelease ==
    /\ worker.pc = "release"
    /\ worker' = [worker EXCEPT !.pc = "ended", !.camera = "released",
                                !.state = "stopped"]
    /\ UNCHANGED StopOthers

\* stop(), lines 63-65: the flag is cleared under the mutex.
SStopCall ==
    /\ worker.stop = "idle"
    /\ worker' = [worker EXCEPT !.running = FALSE, !.stop = "waiting"]
    /\ UNCHANGED StopOthers

\* stop(), line 66: wait() returns once run has returned or raised.
SStopReturn ==
    /\ worker.stop = "waiting"
    /\ worker.pc \in {"ended", "raised"}
    /\ worker' = [worker EXCEPT !.stop = "returned"]
    /\ UNCHANGED StopOthers

StopNext ==
    SStart \/ STop \/ SRead \/ SFrame \/ SRelease \/ SStopCall \/ SStopReturn

StopSpec == GateInit /\ [][StopNext]_vars

\* The thread takes its steps, and wait() returns when it can.
StopFairSpec ==
    StopSpec /\ WF_vars(SStart \/ STop \/ SRead \/ SFrame \/ SRelease)
             /\ WF_vars(SStopReturn)

\* What holds of stop() whatever the frame in progress does: it returns
\* only once run is over, at most one turn finishes after the flag is
\* cleared, and nothing is emitted after it has returned.
StopWaitsForLoop ==
    /\ worker.stop = "returned" => worker.pc \in {"ended", "raised"}
    /\ worker.after <= 1
    /\ ~worker.late
StopEndsLoop == (worker.stop # "idle") ~> (worker.stop = "returned")

\* C38: once stop() has returned the loop has ended and the camera has
\* been released; at most the frame in progress was finished after the
\* flag was cleared, and no result is emitted after the return.
C38_StopLeavesCameraReleased ==
    /\ worker.stop = "returned"
         => (worker.pc = "ended" /\ worker.camera = "released")
    /\ worker.after <= 1
    /\ ~worker.late

---------------------------------------------------------------------------
(* FaceDetector.process on the worker thread, statement by statement,      *)
(* beside MainWindow.end_cooldown on the GUI thread, which calls           *)
(* reset_liveness on the same detector directly.  Nothing orders the two:  *)
(* the detector has no lock, and the anti-spoof inference runs outside the *)
(* interpreter lock.                                                       *)

\* The fewest single-face frames that take a cleared gate to the threshold:
\* the frames without parallax history earn the blink bonus only, the
\* later ones the parallax as well.
MinFreshFrames ==
    (ParallaxMinHistory - 1)
    + ((liveness_threshold - (ParallaxMinHistory - 1) * EarBonus)
       + (ParallaxDepth + EarBonus) - 1) \div (ParallaxDepth + EarBonus)

ResetRaceOthers ==
    <<gate_in, trace, clock, dbVars, cacheVars, matchVars, ledgerVars, kioskVars,
      writer, reader>>

\* Lines 93-115: the landmarks of the frame; a frame without a face clears
\* the gate and returns, one with several returns; a single face is added
\* to the history and the lock is tested.
PEnter ==
    /\ inproc.pc = "idle"
    /\ \E f \in Frames :
        IF f.faces = 0
        THEN /\ liveness_score' = ResetState.score
             /\ is_locked' = ResetState.locked
             /\ history_len' = ResetState.hist
             /\ gate_out' = [status |-> "NO_FACE", res |-> NoResult]
             /\ inproc' = ProcIdle
        ELSE IF f.faces > 1
        THEN /\ gate_out' = [status |-> "MULTIPLE_FACES", res |-> NoResult]
             /\ UNCHANGED <<liveness_score, is_locked, history_len, inproc>>
        ELSE /\ history_len' = Min2(history_len + 1, ParallaxMinHistory)
             /\ inproc' = [pc |-> IF is_locked THEN "hold" ELSE "geometry",
                           frame |-> f,
                           fresh |-> Min2(inproc.fresh + 1, MinFreshFrames)]
             /\ UNCHANGED <<liveness_score, is_locked, gate_out>>
    /\ UNCHANGED ResetRaceOthers

\* Lines 117-125: the geometric contributions, the clamp, the threshold
\* test and the crop.
PGeom ==
    /\ inproc.pc = "geometry"
    /\ LET s1 == GeomScore(liveness_score, history_len, inproc.frame)
       IN /\ liveness_score' = s1
          /\ inproc' = [inproc EXCEPT !.pc =
                           IF ReachesThreshold(s1, inproc.frame) /\ inproc.frame.crop
                           THEN "texture" ELSE "return"]
    /\ UNCHANGED <<is_locked, history_len, gate_out, ResetRaceOthers>>

\* Lines 133-140: the anti-spoof inference has returned; the verdict is
\* written.
PVerdict ==
    /\ inproc.pc = "texture"
    /\ IF TexturePasses(inproc.frame)
       THEN is_locked' = TRUE /\ UNCHANGED liveness_score
       ELSE is_locked' = FALSE /\ liveness_score' = TextureFailScore
    /\ inproc' = [inproc EXCEPT !.pc = "return"]
    /\ UNCHANGED <<history_len, gate_out, ResetRaceOthers>>

\* Lines 141-142: the lock was found set; the score is held.
PHold ==
    /\ inproc.pc = "hold"
    /\ liveness_score' = liveness_threshold
    /\ inproc' = [inproc EXCEPT !.pc = "return"]
    /\ UNCHANGED <<is_locked, history_len, gate_out, ResetRaceOthers>>

\* Lines 144-148: the result is built from the fields as they are now.
PReturn ==
    /\ inproc.pc = "return"
    /\ gate_out' = [status |-> "SUCCESS", res |-> GateResult(liveness_score, is_locked)]
    /\ inproc' = [inproc EXCEPT !.pc = "idle"]
    /\ UNCHANGED <<liveness_score, is_locked, history_len, ResetRaceOthers>>

\* MainWindow.end_cooldown, line 335: reset_liveness from the GUI thread,
\* wherever the worker stands.  A frame whose contributions the worker has
\* yet to add counts as the first of the fresh run; a frame past that point
\* was judged before the reset.
CReset ==
    /\ liveness_score' = ResetState.score
    /\ is_locked' = ResetState.locked
    /\ history_len' = ResetState.hist
    /\ inproc' = [inproc EXCEPT !.fresh = IF inproc.pc = "geometry" THEN 1 ELSE 0]
    /\ UNCHANGED <<gate_out, ResetRaceOthers>>

ResetRaceNext == PEnter \/ PGeom \/ PVerdict \/ PHold \/ PReturn \/ CReset

ResetRaceSpec == GateInit /\ [][ResetRaceNext]_vars

\* C31: whatever the worker was doing when the consumer's reset ran, the
\* gate is locked, or holds its progress at the threshold, only after a
\* complete run of frames started since that reset.
C31_ResetClearsUnderRace ==
    (is_locked \/ liveness_score >= liveness_threshold)
        => inproc.fresh >= MinFreshFrames

=============================================================================
